---- MODULE Spec2Model ----
(***************************************************************************)
(* Model of the cryptocurrency matching engine: MatchingEngine             *)
(* (src/src/core/matching_engine.py), OrderBook and PriceLevel             *)
(* (src/src/core/order_book.py) and Order / Trade (src/src/core/order.py). *)
(*                                                                         *)
(* Python objects are modelled by references: objs is the store of every   *)
(* Order object ever constructed (the caller's objects and the copies the  *)
(* book makes when it rests a remainder); price-level queues and the id    *)
(* index hold references into it, so aliasing is as in the program.        *)
(* Decimal prices and quantities are modelled by small positive integers;  *)
(* the optional price None by NoPrice.  A heapq list is modelled by the    *)
(* ascending sequence of its entries (same pop / push / h[0] behaviour).   *)
(***************************************************************************)
EXTENDS Integers, Sequences, FiniteSets, TLC

\* ------------------------------------------------------------------ bounds
MaxOrders == 3
MaxPrice == 2
MaxQty == 2
MaxCallbacks == 2

Symbols == {"BTC-USDT"}
Prices == 1..MaxPrice
Quantities == 1..MaxQty

\* ------------------------------------------------------- order_types.py
MARKET == "market"
LIMIT == "limit"
IOC == "ioc"
FOK == "fok"
OrderType == {MARKET, LIMIT, IOC, FOK}

BUY == "buy"
SELL == "sell"
OrderSide == {BUY, SELL}

PENDING == "pending"
PARTIALLY_FILLED == "partially_filled"
FILLED == "filled"
CANCELLED == "cancelled"
REJECTED == "rejected"

\* price: Optional[Decimal] = None
NoPrice == 0

\* order_books: MatchingEngine.order_books; objs: every Order object made so
\* far (references are positions); submitted: how many orders callers have
\* submitted; last: the last call and what it returned; executed: for each
\* order id, the quantity and the value of all trades that name it; trip:
\* the books before the last submit when that submit made no trade, kept
\* through a cancel of the same id that directly follows it; statistics:
\* the engine's three counters; returned: what the submit calls returned so
\* far (trades, their value, calls dispatched to a book).
VARIABLES order_books, objs, submitted, last, executed, trip, statistics,
          returned, trade_callbacks, market_data_callbacks, events

vars == <<order_books, objs, submitted, last, executed, trip, statistics,
          returned, trade_callbacks, market_data_callbacks, events>>

\* ------------------------------------------------------------- helpers
\* the larger of two quantities
Max(a, b) == IF a >= b THEN a ELSE b

Min(a, b) == IF a <= b THEN a ELSE b

\* Python dict: a function whose domain is the set of keys present.
EmptyDict == [k \in {} |-> 0]
DictSet(d, k, v) == [x \in (DOMAIN d) \cup {k} |-> IF x = k THEN v ELSE d[x]]
DictDel(d, k) == [x \in (DOMAIN d) \ {k} |-> d[x]]

RECURSIVE SeqSum(_)
SeqSum(s) == IF s = <<>> THEN 0 ELSE Head(s) + SeqSum(Tail(s))

SeqRange(s) == {s[i] : i \in 1..Len(s)}

\* ---------------------------------------------------------------- heapq
\* a pop that returns the largest entry instead of the smallest
heap_max(h) == h[Len(h)]

\* heap[0] / the value heappop returns: the smallest entry.
heap_min(h) == Head(h)

heappop_rest(h) == Tail(h)

\* a push that puts the price at the top of the heap whatever it is
heappush_front(h, x) == <<x>> \o h

RECURSIVE heappush(_, _)
heappush(h, x) ==
    IF h = <<>> THEN <<x>>
    ELSE IF x <= Head(h) THEN <<x>> \o h
    ELSE <<Head(h)>> \o heappush(Tail(h), x)

\* a removal that leaves the list as it is
list_keep(h, x) == h

\* list.remove(x): drop the first occurrence (ValueError if absent is
\* swallowed by the callers); heapify keeps the remaining entries.
RECURSIVE list_remove(_, _)
list_remove(h, x) ==
    IF h = <<>> THEN <<>>
    ELSE IF Head(h) = x THEN Tail(h)
    ELSE <<Head(h)>> \o list_remove(Tail(h), x)

\* ------------------------------------------------------------- order.py
\* Decimal values that need not be whole (average_price) are fractions in
\* lowest terms; the quotient is taken exactly (the Decimal context rounds
\* it to 28 significant digits).
RECURSIVE GCD(_, _)
GCD(a, b) == IF b = 0 THEN a ELSE GCD(b, a % b)

Fraction(n, d) == [num |-> n \div GCD(n, d), den |-> d \div GCD(n, d)]

\* Decimal('0')
DecimalZero == Fraction(0, 1)

Order(id, sym, typ, side, qty, price, ts) ==
    [order_id |-> id, symbol |-> sym, order_type |-> typ, side |-> side,
     quantity |-> qty, price |-> price, timestamp |-> ts,
     status |-> PENDING, filled_quantity |-> 0,
     average_price |-> DecimalZero]

remaining_quantity(o) == o.quantity - o.filled_quantity

\* an order counted as filled only once it is overfilled
is_overfilled(o) == remaining_quantity(o) < 0

is_fully_filled(o) == remaining_quantity(o) <= 0

\* ---------------------------------------------------- PriceLevel
PriceLevel(price) == [price |-> price, orders |-> <<>>, total_quantity |-> 0]

\* a queue that takes a new order at its head (appendleft)
PriceLevel_appendleft(q, r) == <<r>> \o q

\* the queue after deque.append(order)
PriceLevel_append(q, r) == Append(q, r)

\* an add_order that does not count the quantity into the level total
PriceLevel_add_uncounted(level, r, o) ==
    [level EXCEPT !.orders = PriceLevel_append(@, r)]

PriceLevel_add_order(level, r, o) ==
    [level EXCEPT !.orders = PriceLevel_append(@, r),
                  !.total_quantity = @ + o.quantity]

PriceLevel_is_empty(level) == Len(level.orders) = 0

\* deque.remove(order): position of the first queued object equal to the
\* order (dataclass equality is field-wise); 0 when there is none.
deque_index(level, os, o) ==
    IF \E i \in 1..Len(level.orders) : os[level.orders[i]] = o
    THEN CHOOSE i \in 1..Len(level.orders) :
            /\ os[level.orders[i]] = o
            /\ \A j \in 1..(i - 1) : os[level.orders[j]] # o
    ELSE 0

\* a removal that leaves the level as it is
PriceLevel_keep_order(level, os, o) == level

\* a removal that takes the order's quantity off the total twice
PriceLevel_remove_twice(level, os, o) ==
    LET i == deque_index(level, os, o) IN
    IF i = 0 THEN level
    ELSE [level EXCEPT
            !.orders = SubSeq(@, 1, i - 1) \o SubSeq(@, i + 1, Len(@)),
            !.total_quantity = @ - 2 * o.quantity]

PriceLevel_remove_order(level, os, o) ==
    LET i == deque_index(level, os, o) IN
    IF i = 0 THEN level
    ELSE [level EXCEPT
            !.orders = SubSeq(@, 1, i - 1) \o SubSeq(@, i + 1, Len(@)),
            !.total_quantity = @ - o.quantity]

\* ---------------------------------------------------- OrderBook
OrderBook(sym) ==
    [symbol |-> sym, bids |-> EmptyDict, asks |-> EmptyDict,
     bid_prices |-> <<>>, ask_prices |-> <<>>, orders |-> EmptyDict]


\* a trade priced at the aggressor's own price
buy_trade_at_taker_price(order, resting_order, best_ask_price, trade_quantity) ==
    [symbol |-> order.symbol, price |-> order.price,
     quantity |-> trade_quantity, aggressor_side |-> BUY,
     maker_order_id |-> resting_order.order_id,
     taker_order_id |-> order.order_id]

\* Trade(...) as built in _match_buy_order / _match_sell_order
buy_trade(order, resting_order, best_ask_price, trade_quantity) ==
    [symbol |-> order.symbol, price |-> best_ask_price,
     quantity |-> trade_quantity, aggressor_side |-> BUY,
     maker_order_id |-> resting_order.order_id,
     taker_order_id |-> order.order_id]

\* a trade that names the maker as taker and the taker as maker
sell_trade_swapped(order, resting_order, best_bid_price, trade_quantity) ==
    [symbol |-> order.symbol, price |-> best_bid_price,
     quantity |-> trade_quantity, aggressor_side |-> SELL,
     maker_order_id |-> order.order_id,
     taker_order_id |-> resting_order.order_id]

sell_trade(order, resting_order, best_bid_price, trade_quantity) ==
    [symbol |-> order.symbol, price |-> best_bid_price,
     quantity |-> trade_quantity, aggressor_side |-> SELL,
     maker_order_id |-> resting_order.order_id,
     taker_order_id |-> order.order_id]

\* What really rests: remaining quantities of the queued orders of a level.
level_remaining(level, os) ==
    SeqSum([i \in 1..Len(level.orders) |-> remaining_quantity(os[level.orders[i]])])

\* Observation of one match, taken just before the trade is made: the
\* maker, its own price, the queue of its level and the prices of the
\* levels of that side that hold orders.
match_entry(side_levels, os, level, r) ==
    [maker |-> r, maker_price |-> os[r].price, level_price |-> level.price,
     queue |-> level.orders,
     queue_rem |-> [i \in 1..Len(level.orders) |->
                        remaining_quantity(os[level.orders[i]])],
     live_prices |-> {p \in DOMAIN side_levels : Len(side_levels[p].orders) > 0}]

\* State threaded through the matching loops: the book's fields, the object
\* store, and the locals trades / remaining_quantity of the method; pops
\* counts the passes of the outer loop (one heappop each).
match_state(book, os, aref) ==
    [bids |-> book.bids, asks |-> book.asks,
     bid_prices |-> book.bid_prices, ask_prices |-> book.ask_prices,
     orders |-> book.orders, objs |-> os,
     trades |-> <<>>, log |-> <<>>, pops |-> 0,
     remaining_quantity |-> os[aref].quantity]

\* _update_average_price, on an order whose filled_quantity already counts
\* the trade: average_price * (filled - trade quantity) + price * quantity,
\* divided by filled
update_average_price(order, trade) ==
    IF order.filled_quantity > 0
    THEN [order EXCEPT !.average_price =
            Fraction(@.num * (order.filled_quantity - trade.quantity)
                        + trade.price * trade.quantity * @.den,
                     @.den * order.filled_quantity)]
    ELSE order

\* the two quantity updates and the average price update of one order
fill_order(order, trade) ==
    update_average_price(
        [order EXCEPT !.filled_quantity = @ + trade.quantity], trade)

\* a fill that leaves a consumed maker in the id index
fill_orders_keeps_index(st, aref, r, trade_quantity, trade, entry) ==
    LET resting_order == st.objs[r]
        full == is_fully_filled(
                  [resting_order EXCEPT !.filled_quantity = @ + trade_quantity])
    IN [st EXCEPT
          !.trades = Append(@, trade),
          !.log = Append(@, entry),
          !.remaining_quantity = @ - trade_quantity,
          !.objs = [@ EXCEPT
              ![r] = [fill_order(@, trade) EXCEPT
                        !.status = IF full THEN FILLED ELSE PARTIALLY_FILLED],
              ![aref] = fill_order(@, trade)],
          !.orders = DictSet(@, resting_order.order_id, r)]

\* One fill (the same statements on both sides): trade appended, quantities
\* and statuses updated, the maker re-put in or deleted from the id index.
fill_orders(st, aref, r, trade_quantity, trade, entry) ==
    LET resting_order == st.objs[r]
        full == is_fully_filled(
                  [resting_order EXCEPT !.filled_quantity = @ + trade_quantity])
    IN [st EXCEPT
          !.trades = Append(@, trade),
          !.log = Append(@, entry),
          !.remaining_quantity = @ - trade_quantity,
          !.objs = [@ EXCEPT
              ![r] = [fill_order(@, trade) EXCEPT
                        !.status = IF full THEN FILLED ELSE PARTIALLY_FILLED],
              ![aref] = fill_order(@, trade)],
          !.orders = IF full THEN DictDel(@, resting_order.order_id)
                     ELSE DictSet(@, resting_order.order_id, r)]

RECURSIVE match_buy_level(_, _, _)
RECURSIVE match_buy_loop(_, _)
RECURSIVE match_sell_level(_, _, _)
RECURSIVE match_sell_loop(_, _)

\* body of the inner while loop of _match_buy_order: the trade with the
\* head r of the level; a fully filled head is popped
buy_fill(st, best_ask_price, aref, r) ==
    LET resting_order == st.objs[r]
        trade_quantity == Min(st.remaining_quantity,
                              remaining_quantity(resting_order))
        st1 == fill_orders(st, aref, r, trade_quantity,
                  buy_trade(st.objs[aref], resting_order, best_ask_price,
                            trade_quantity),
                  match_entry(st.asks, st.objs, st.asks[best_ask_price], r))
    IN IF is_fully_filled(st1.objs[r])
       THEN [st1 EXCEPT !.asks[best_ask_price].orders = Tail(@)]
       ELSE st1

\* after a fill: next iteration when the head was consumed, else break
buy_level_next(st1, best_ask_price, aref, r) ==
    IF is_fully_filled(st1.objs[r])
    THEN match_buy_level(st1, best_ask_price, aref)
    ELSE st1

\* inner while loop of _match_buy_order (one price level)
match_buy_level(st, best_ask_price, aref) ==
    IF ~(st.remaining_quantity > 0 /\ Len(st.asks[best_ask_price].orders) > 0)
    THEN st
    ELSE buy_level_next(
            buy_fill(st, best_ask_price, aref,
                     Head(st.asks[best_ask_price].orders)),
            best_ask_price, aref, Head(st.asks[best_ask_price].orders))

\* a visit that leaves an emptied level in the map
buy_level_done_keeps_level(st1, best_ask_price) ==
    IF ~PriceLevel_is_empty(st1.asks[best_ask_price])
    THEN [st1 EXCEPT !.ask_prices = heappush(@, best_ask_price)]
    ELSE st1

\* after a level was visited: its price goes back on the heap if orders
\* remain, else the level is deleted
buy_level_done(st1, best_ask_price) ==
    IF ~PriceLevel_is_empty(st1.asks[best_ask_price])
    THEN [st1 EXCEPT !.ask_prices = heappush(@, best_ask_price)]
    ELSE [st1 EXCEPT !.asks = DictDel(@, best_ask_price)]

\* body of the outer while loop, the best price popped
buy_visit(st0, best_ask_price, aref) ==
    IF best_ask_price \notin DOMAIN st0.asks
    THEN match_buy_loop(st0, aref)
    ELSE match_buy_loop(
            buy_level_done(match_buy_level(st0, best_ask_price, aref),
                           best_ask_price),
            aref)

\* a buy that leaves the loop before its first pass
match_buy_loop_skipped(st, aref) == st

\* outer while loop of _match_buy_order (over the ask heap)
match_buy_loop(st, aref) ==
    IF ~(st.remaining_quantity > 0 /\ Len(st.ask_prices) > 0) THEN st
    ELSE buy_visit([st EXCEPT !.ask_prices = heappop_rest(@),
                              !.pops = @ + 1],
                   heap_min(st.ask_prices), aref)

add_limit_buy_order(st, aref, quantity) ==
    LET order == st.objs[aref]
        isnew == order.price \notin DOMAIN st.bids
        limit_order == Order(order.order_id, order.symbol, LIMIT, BUY,
                             quantity, order.price, order.timestamp)
        nref == Len(st.objs) + 1
    IN [st EXCEPT
          !.bids = [(IF isnew THEN DictSet(@, order.price, PriceLevel(order.price))
                     ELSE @)
                    EXCEPT ![order.price] =
                        PriceLevel_add_order(@, nref, limit_order)],
          !.bid_prices = IF isnew THEN heappush(@, 0 - order.price) ELSE @,
          !.orders = DictSet(@, order.order_id, nref),
          !.objs = Append([@ EXCEPT ![aref].status = PENDING], limit_order)]

\* the statements of _match_buy_order after the loops
buy_finish(st, aref) ==
    IF st.remaining_quantity > 0 /\ st.objs[aref].order_type # MARKET
    THEN add_limit_buy_order(st, aref, st.remaining_quantity)
    ELSE IF st.remaining_quantity > 0
    THEN [st EXCEPT !.objs[aref].status = REJECTED]
    ELSE IF Len(st.trades) > 0
    THEN [st EXCEPT !.objs[aref].status = FILLED]
    ELSE st

match_buy_order(book, os, aref) ==
    buy_finish(match_buy_loop(match_state(book, os, aref), aref), aref)

\* a fill that sends a partly filled head to the tail of its level
sell_fill_requeue(st, best_bid_price, aref, r) ==
    LET resting_order == st.objs[r]
        trade_quantity == Min(st.remaining_quantity,
                              remaining_quantity(resting_order))
        st1 == fill_orders(st, aref, r, trade_quantity,
                  sell_trade(st.objs[aref], resting_order, best_bid_price,
                             trade_quantity),
                  match_entry(st.bids, st.objs, st.bids[best_bid_price], r))
    IN IF is_fully_filled(st1.objs[r])
       THEN [st1 EXCEPT !.bids[best_bid_price].orders = Tail(@)]
       ELSE [st1 EXCEPT !.bids[best_bid_price].orders =
                            Append(Tail(@), Head(@))]

\* body of the inner while loop of _match_sell_order
sell_fill(st, best_bid_price, aref, r) ==
    LET resting_order == st.objs[r]
        trade_quantity == Min(st.remaining_quantity,
                              remaining_quantity(resting_order))
        st1 == fill_orders(st, aref, r, trade_quantity,
                  sell_trade(st.objs[aref], resting_order, best_bid_price,
                             trade_quantity),
                  match_entry(st.bids, st.objs, st.bids[best_bid_price], r))
    IN IF is_fully_filled(st1.objs[r])
       THEN [st1 EXCEPT !.bids[best_bid_price].orders = Tail(@)]
       ELSE st1

sell_level_next(st1, best_bid_price, aref, r) ==
    IF is_fully_filled(st1.objs[r])
    THEN match_sell_level(st1, best_bid_price, aref)
    ELSE st1

\* inner while loop of _match_sell_order (one price level)
match_sell_level(st, best_bid_price, aref) ==
    IF ~(st.remaining_quantity > 0 /\ Len(st.bids[best_bid_price].orders) > 0)
    THEN st
    ELSE sell_level_next(
            sell_fill(st, best_bid_price, aref,
                      Head(st.bids[best_bid_price].orders)),
            best_bid_price, aref, Head(st.bids[best_bid_price].orders))

sell_level_done(st1, best_bid_price) ==
    IF ~PriceLevel_is_empty(st1.bids[best_bid_price])
    THEN [st1 EXCEPT !.bid_prices = heappush(@, 0 - best_bid_price)]
    ELSE [st1 EXCEPT !.bids = DictDel(@, best_bid_price)]

sell_visit(st0, best_bid_price, aref) ==
    IF best_bid_price \notin DOMAIN st0.bids
    THEN match_sell_loop(st0, aref)
    ELSE match_sell_loop(
            sell_level_done(match_sell_level(st0, best_bid_price, aref),
                            best_bid_price),
            aref)

\* a sell that leaves the loop before its first pass
match_sell_loop_skipped(st, aref) == st

\* outer while loop of _match_sell_order (over the negated bid heap)
match_sell_loop(st, aref) ==
    IF ~(st.remaining_quantity > 0 /\ Len(st.bid_prices) > 0) THEN st
    ELSE sell_visit([st EXCEPT !.bid_prices = heappop_rest(@),
                               !.pops = @ + 1],
                    0 - heap_min(st.bid_prices), aref)

add_limit_sell_order(st, aref, quantity) ==
    LET order == st.objs[aref]
        isnew == order.price \notin DOMAIN st.asks
        limit_order == Order(order.order_id, order.symbol, LIMIT, SELL,
                             quantity, order.price, order.timestamp)
        nref == Len(st.objs) + 1
    IN [st EXCEPT
          !.asks = [(IF isnew THEN DictSet(@, order.price, PriceLevel(order.price))
                     ELSE @)
                    EXCEPT ![order.price] =
                        PriceLevel_add_order(@, nref, limit_order)],
          !.ask_prices = IF isnew THEN heappush(@, order.price) ELSE @,
          !.orders = DictSet(@, order.order_id, nref),
          !.objs = Append([@ EXCEPT ![aref].status = PENDING], limit_order)]

\* the statements of _match_sell_order after the loops
sell_finish(st, aref) ==
    IF st.remaining_quantity > 0 /\ st.objs[aref].order_type # MARKET
    THEN add_limit_sell_order(st, aref, st.remaining_quantity)
    ELSE IF st.remaining_quantity > 0
    THEN [st EXCEPT !.objs[aref].status = REJECTED]
    ELSE IF Len(st.trades) > 0
    THEN [st EXCEPT !.objs[aref].status = FILLED]
    ELSE st

match_sell_order(book, os, aref) ==
    sell_finish(match_sell_loop(match_state(book, os, aref), aref), aref)

\* a call that never entered a matching loop
NoLoops == [entered |-> FALSE, pops |-> 0]

\* what add_order hands back: the book, the object store, the trades (and
\* the match log and the count of outer loop passes)
add_order_return(book, st) ==
    [book |-> [book EXCEPT !.bids = st.bids, !.asks = st.asks,
                           !.bid_prices = st.bid_prices,
                           !.ask_prices = st.ask_prices,
                           !.orders = st.orders],
     objs |-> st.objs, trades |-> st.trades, log |-> st.log,
     loops |-> [entered |-> TRUE, pops |-> st.pops]]

\* self.orders[order.order_id] = order
index_order(book, os, aref) ==
    [book EXCEPT !.orders = DictSet(@, os[aref].order_id, aref)]

\* OrderBook.add_order: the aggressor is put in the id index, then matched.
\* (_update_statistics only recomputes the two aggregate totals, which no
\* other code reads.)
add_order(book, os, aref) ==
    add_order_return(book,
        IF os[aref].side = BUY
        THEN match_buy_order(index_order(book, os, aref), os, aref)
        ELSE match_sell_order(index_order(book, os, aref), os, aref))

\* the bid branch of cancel_order
cancel_bid(book, os, order) ==
    LET lvl == PriceLevel_remove_order(book.bids[order.price], os, order) IN
    IF PriceLevel_is_empty(lvl)
    THEN [book EXCEPT !.bids = DictDel(@, order.price),
                      !.bid_prices = list_remove(@, 0 - order.price)]
    ELSE [book EXCEPT !.bids[order.price] = lvl]

\* the ask branch of cancel_order
cancel_ask(book, os, order) ==
    LET lvl == PriceLevel_remove_order(book.asks[order.price], os, order) IN
    IF PriceLevel_is_empty(lvl)
    THEN [book EXCEPT !.asks = DictDel(@, order.price),
                      !.ask_prices = list_remove(@, order.price)]
    ELSE [book EXCEPT !.asks[order.price] = lvl]

\* a cancel that leaves the levels as they are
cancel_keeps_level(book, os, order) == book

\* the book after the level of the order was searched
cancel_in_level(book, os, order) ==
    IF order.side = BUY /\ order.price \in DOMAIN book.bids
    THEN cancel_bid(book, os, order)
    ELSE IF order.side = SELL /\ order.price \in DOMAIN book.asks
    THEN cancel_ask(book, os, order)
    ELSE book

\* OrderBook.cancel_order
book_cancel_order(book, os, order_id) ==
    IF order_id \notin DOMAIN book.orders
    THEN [book |-> book, objs |-> os, success |-> FALSE]
    ELSE [book |-> [cancel_in_level(book, os, os[book.orders[order_id]])
                      EXCEPT !.orders = DictDel(@, order_id)],
          objs |-> [os EXCEPT ![book.orders[order_id]].status = CANCELLED],
          success |-> TRUE]

\* ---------------------------------------------------- MatchingEngine
\* sorted(d.keys()) and sorted(d.keys(), reverse=True)
RECURSIVE sorted_asc(_)
sorted_asc(S) ==
    IF S = {} THEN <<>>
    ELSE LET m == CHOOSE x \in S : \A y \in S : x <= y
         IN <<m>> \o sorted_asc(S \ {m})

RECURSIVE sorted_desc(_)
sorted_desc(S) ==
    IF S = {} THEN <<>>
    ELSE LET m == CHOOSE x \in S : \A y \in S : x >= y
         IN <<m>> \o sorted_desc(S \ {m})

\* the quantity the pre-check reads for one level: the cached total
level_available(level) == level.total_quantity

\* ask_price <= order.price / bid_price >= order.price
passes_limit(order, p) ==
    IF order.side = BUY THEN p <= order.price ELSE p >= order.price

\* the two for-loops of _can_fill_fully
RECURSIVE can_fill_walk(_, _, _, _)
can_fill_walk(prices, levels, order, available_quantity) ==
    IF prices = <<>> THEN FALSE
    ELSE IF ~passes_limit(order, Head(prices))
    THEN can_fill_walk(Tail(prices), levels, order, available_quantity)
    ELSE IF available_quantity + level_available(levels[Head(prices)])
              >= order.quantity
    THEN TRUE
    ELSE can_fill_walk(Tail(prices), levels, order,
            available_quantity + level_available(levels[Head(prices)]))

can_fill_fully(books, order) ==
    IF order.symbol \notin DOMAIN books THEN FALSE
    ELSE IF order.side = BUY
    THEN can_fill_walk(sorted_asc(DOMAIN books[order.symbol].asks),
                       books[order.symbol].asks, order, 0)
    ELSE can_fill_walk(sorted_desc(DOMAIN books[order.symbol].bids),
                       books[order.symbol].bids, order, 0)

\* _validate_order: [ok, objs] (an FOK that fails the pre-check is marked
\* Rejected here)
validate_order(books, os, aref) ==
    LET order == os[aref] IN
    IF order.symbol = "" THEN [ok |-> FALSE, objs |-> os]
    ELSE IF order.quantity <= 0 THEN [ok |-> FALSE, objs |-> os]
    ELSE IF order.order_type \in {LIMIT, IOC, FOK}
            /\ (order.price = NoPrice \/ order.price <= 0)
    THEN [ok |-> FALSE, objs |-> os]
    ELSE IF order.order_type = FOK /\ ~can_fill_fully(books, order)
    THEN [ok |-> FALSE, objs |-> [os EXCEPT ![aref].status = REJECTED]]
    ELSE [ok |-> TRUE, objs |-> os]

\* status assigned by _handle_market_order after add_order
market_status(order, trades) ==
    IF Len(trades) > 0
    THEN (IF is_fully_filled(order) THEN FILLED ELSE PARTIALLY_FILLED)
    ELSE REJECTED

\* status assigned by _handle_limit_order after add_order
limit_status(order, trades) ==
    IF Len(trades) > 0
    THEN (IF is_fully_filled(order) THEN FILLED ELSE PARTIALLY_FILLED)
    ELSE PENDING

\* an IOC handler that leaves an untraded order Pending, as for a Limit
ioc_status_untraded_pending(order, trades) ==
    IF Len(trades) > 0
    THEN (IF is_fully_filled(order) THEN FILLED ELSE PARTIALLY_FILLED)
    ELSE PENDING

\* status assigned by _handle_ioc_order after add_order
ioc_status(order, trades) ==
    IF Len(trades) > 0
    THEN (IF is_fully_filled(order) THEN FILLED ELSE PARTIALLY_FILLED)
    ELSE CANCELLED

\* status assigned by _handle_fok_order after add_order
fok_status(order, trades) ==
    IF Len(trades) > 0 /\ is_fully_filled(order) THEN FILLED ELSE REJECTED

\* order.status = ... in the handlers, on what add_order handed back
handler_status(typ, order, trades) ==
    IF typ = MARKET THEN market_status(order, trades)
    ELSE IF typ = LIMIT THEN limit_status(order, trades)
    ELSE IF typ = IOC THEN ioc_status(order, trades)
    ELSE fok_status(order, trades)

set_status(res, aref, typ) ==
    [res EXCEPT !.objs[aref].status =
        handler_status(typ, res.objs[aref], res.trades)]

handle_market_order(book, os, aref) ==
    set_status(add_order(book, os, aref), aref, MARKET)

handle_limit_order(book, os, aref) ==
    set_status(add_order(book, os, aref), aref, LIMIT)

handle_ioc_order(book, os, aref) ==
    set_status(add_order(book, os, aref), aref, IOC)

handle_fok_order(books, book, os, aref) ==
    IF ~can_fill_fully(books, os[aref])
    THEN [book |-> book, objs |-> [os EXCEPT ![aref].status = REJECTED],
          trades |-> <<>>, log |-> <<>>, loops |-> NoLoops]
    ELSE set_status(add_order(book, os, aref), aref, FOK)

process_order(books, book, os, aref) ==
    IF os[aref].order_type = MARKET THEN handle_market_order(book, os, aref)
    ELSE IF os[aref].order_type = LIMIT THEN handle_limit_order(book, os, aref)
    ELSE IF os[aref].order_type = IOC THEN handle_ioc_order(book, os, aref)
    ELSE handle_fok_order(books, book, os, aref)

\* an add_order_book that always installs a fresh book
add_order_book_fresh(books, symbol) ==
    DictSet(books, symbol, OrderBook(symbol))

\* MatchingEngine.add_order_book: the engine's books afterwards
add_order_book(books, symbol) ==
    IF symbol \in DOMAIN books THEN books
    ELSE DictSet(books, symbol, OrderBook(symbol))

\* a submit that stores the matched book under every symbol
submit_return_everywhere(books1, symbol, res) ==
    [order_books |-> [s \in DOMAIN books1 |-> res.book],
     objs |-> res.objs, trades |-> res.trades, log |-> res.log,
     loops |-> res.loops, dispatched |-> TRUE]

\* what submit_order leaves and returns after _process_order
submit_return(books1, symbol, res) ==
    [order_books |-> [books1 EXCEPT ![symbol] = res.book],
     objs |-> res.objs, trades |-> res.trades, log |-> res.log,
     loops |-> res.loops, dispatched |-> TRUE]

\* submit_order once the order passed validation: the book is created if
\* absent and the order dispatched by type
submit_dispatch(books1, os, aref) ==
    submit_return(books1, os[aref].symbol,
        process_order(books1, books1[os[aref].symbol], os, aref))

submit_validated(books, v, aref) ==
    IF ~v.ok
    THEN [order_books |-> books, objs |-> v.objs, trades |-> <<>>,
          log |-> <<>>, loops |-> NoLoops, dispatched |-> FALSE]
    ELSE submit_dispatch(add_order_book(books, v.objs[aref].symbol),
                         v.objs, aref)

\* MatchingEngine.submit_order
submit_order(books, os, aref) ==
    submit_validated(books, validate_order(books, os, aref), aref)

cancel_return(books, symbol, res) ==
    [order_books |-> [books EXCEPT ![symbol] = res.book],
     objs |-> res.objs, success |-> res.success]

\* MatchingEngine.cancel_order
cancel_order(books, os, order_id, symbol) ==
    IF symbol \notin DOMAIN books
    THEN [order_books |-> books, objs |-> os, success |-> FALSE]
    ELSE cancel_return(books, symbol,
            book_cancel_order(books[symbol], os, order_id))

\* OrderBook.get_bbo: the tops of the two price heaps, None when empty
get_bbo(book) ==
    [best_bid |-> IF Len(book.bid_prices) > 0 THEN 0 - book.bid_prices[1]
                  ELSE NoPrice,
     best_ask |-> IF Len(book.ask_prices) > 0 THEN book.ask_prices[1]
                  ELSE NoPrice]

\* MatchingEngine.get_bbo
engine_get_bbo(books, symbol) ==
    IF symbol \notin DOMAIN books
    THEN [best_bid |-> NoPrice, best_ask |-> NoPrice]
    ELSE get_bbo(books[symbol])

\* the side names get_order_book_depth is called with
BIDS == "bids"
ASKS == "asks"

\* sorted(...)[:depth]
take(s, depth) == SubSeq(s, 1, Min(depth, Len(s)))

\* OrderBook.get_order_book_depth: [price, total_quantity] of the first
\* depth levels, best first (a price and a quantity have one spelling
\* here, so str() of them is not modelled apart)
get_order_book_depth(book, side, depth) ==
    IF side = BIDS
    THEN [i \in 1..Len(take(sorted_desc(DOMAIN book.bids), depth)) |->
            <<sorted_desc(DOMAIN book.bids)[i],
              book.bids[sorted_desc(DOMAIN book.bids)[i]].total_quantity>>]
    ELSE [i \in 1..Len(take(sorted_asc(DOMAIN book.asks), depth)) |->
            <<sorted_asc(DOMAIN book.asks)[i],
              book.asks[sorted_asc(DOMAIN book.asks)[i]].total_quantity>>]

\* MatchingEngine.get_order_book_depth
engine_get_order_book_depth(books, symbol, side, depth) ==
    IF symbol \notin DOMAIN books THEN <<>>
    ELSE get_order_book_depth(books[symbol], side, depth)

\* get_order returning None
NoOrder == 0

\* OrderBook.get_order: the object the id index holds, or None
book_get_order(book, order_id) ==
    IF order_id \in DOMAIN book.orders THEN book.orders[order_id] ELSE NoOrder

\* MatchingEngine.get_order
get_order(books, order_id, symbol) ==
    IF symbol \notin DOMAIN books THEN NoOrder
    ELSE book_get_order(books[symbol], order_id)

\* ------------------------------------------------------- notifications
\* A registered callback: calling it either returns or raises.
Callback(raises) == [raises |-> raises]

\* One call of a trade callback: the callback (by its place in
\* trade_callbacks), the trade it was given, and the call of the engine
\* that made it.
trade_event(i, trade, call) ==
    [kind |-> "trade", callback |-> i, op |-> "submit", call |-> call,
     trade |-> trade]

\* the calls _notify_trades makes: trade by trade, callback by callback
trade_calls(callbacks, trades, call) ==
    [n \in 1..(Len(trades) * Len(callbacks)) |->
        trade_event(((n - 1) % Len(callbacks)) + 1,
                    trades[((n - 1) \div Len(callbacks)) + 1], call)]

\* the places of the calls that raise
raising(callbacks, calls) ==
    {n \in 1..Len(calls) : callbacks[calls[n].callback].raises}

\* calls made when the first exception ends the loop
until_first_raise(callbacks, calls) ==
    IF raising(callbacks, calls) = {} THEN calls
    ELSE SubSeq(calls, 1,
            CHOOSE n \in raising(callbacks, calls) :
                \A m \in raising(callbacks, calls) : n <= m)

\* the trades handed over newest first
notify_trades_newest_first(callbacks, trades, call) ==
    trade_calls(callbacks,
        [i \in 1..Len(trades) |-> trades[Len(trades) + 1 - i]], call)

\* MatchingEngine._notify_trades: each call sits in its own try/except, so
\* an exception is logged and the loops go on
notify_trades(callbacks, trades, call) ==
    trade_calls(callbacks, trades, call)

\* the dict _notify_market_data builds (its wall-clock timestamp left out;
\* a price has one spelling here, so str() is not modelled apart)
market_data(book, symbol) ==
    [symbol |-> symbol,
     bids |-> get_order_book_depth(book, BIDS, 10),
     asks |-> get_order_book_depth(book, ASKS, 10),
     best_bid |-> get_bbo(book).best_bid,
     best_ask |-> get_bbo(book).best_ask]

market_data_calls(books, symbol, callbacks, op, call) ==
    IF symbol \notin DOMAIN books THEN <<>>
    ELSE [i \in 1..Len(callbacks) |->
            [kind |-> "market_data", callback |-> i, op |-> op,
             call |-> call,
             market_data |-> market_data(books[symbol], symbol)]]

\* a market-data loop that the first exception ends
notify_market_data_unguarded(books, symbol, callbacks, op, call) ==
    until_first_raise(callbacks,
        market_data_calls(books, symbol, callbacks, op, call))

\* MatchingEngine._notify_market_data: one dict, handed to every callback,
\* each call in its own try/except
notify_market_data(books, symbol, callbacks, op, call) ==
    market_data_calls(books, symbol, callbacks, op, call)

\* a submit that sends the book update ahead of the trades
submit_notify_book_first(res, symbol, tcbs, mcbs, call) ==
    IF ~res.dispatched THEN <<>>
    ELSE notify_market_data(res.order_books, symbol, mcbs, "submit", call)
         \o notify_trades(tcbs, res.trades, call)

\* the callbacks submit_order calls before it returns: none when the order
\* failed validation
submit_notify(res, symbol, tcbs, mcbs, call) ==
    IF ~res.dispatched THEN <<>>
    ELSE notify_trades(tcbs, res.trades, call)
         \o notify_market_data(res.order_books, symbol, mcbs, "submit", call)

\* a cancel that sends market data whether it succeeded or not
cancel_notify_always(res, symbol, mcbs, call) ==
    notify_market_data(res.order_books, symbol, mcbs, "cancel", call)

\* the callbacks cancel_order calls: market data after a successful cancel
cancel_notify(res, symbol, mcbs, call) ==
    IF res.success
    THEN notify_market_data(res.order_books, symbol, mcbs, "cancel", call)
    ELSE <<>>

\* ------------------------------------------------------------ behaviour
\* What the last call was given and what it returned.
Outcome(op, sym, ref, id, trades, log, dispatched, success) ==
    [op |-> op, symbol |-> sym, ref |-> ref, order_id |-> id,
     trades |-> trades, log |-> log, dispatched |-> dispatched,
     success |-> success, loops |-> NoLoops]

\* the trades of one order id so far, none when it was never named
executed_of(ex, id) ==
    IF id \in DOMAIN ex THEN ex[id] ELSE [quantity |-> 0, value |-> 0]

\* one trade counted for an order id
count_trade(ex, id, trade) ==
    DictSet(ex, id,
        [quantity |-> executed_of(ex, id).quantity + trade.quantity,
         value |-> executed_of(ex, id).value + trade.price * trade.quantity])

\* the returned trades counted for their makers and their taker
RECURSIVE record_trades(_, _)
record_trades(ex, trades) ==
    IF trades = <<>> THEN ex
    ELSE record_trades(
            count_trade(count_trade(ex, Head(trades).maker_order_id, Head(trades)),
                        Head(trades).taker_order_id, Head(trades)),
            Tail(trades))

\* Trade.notional_value
notional_value(trade) == trade.price * trade.quantity

\* the summed notional value of a list of trades
RECURSIVE total_notional(_)
total_notional(trades) ==
    IF trades = <<>> THEN 0
    ELSE notional_value(Head(trades)) + total_notional(Tail(trades))

\* the summed quantity of a list of trades
RECURSIVE total_quantity_of(_)
total_quantity_of(trades) ==
    IF trades = <<>> THEN 0
    ELSE Head(trades).quantity + total_quantity_of(Tail(trades))

\* counters that add up quantities where the notional value belongs
update_statistics_by_quantity(stats, trades) ==
    [total_orders_processed |-> stats.total_orders_processed + 1,
     total_trades_executed |-> stats.total_trades_executed + Len(trades),
     total_volume |-> stats.total_volume + total_quantity_of(trades)]

\* "Update statistics" in submit_order, after _process_order returned
update_statistics(stats, trades) ==
    [total_orders_processed |-> stats.total_orders_processed + 1,
     total_trades_executed |-> stats.total_trades_executed + Len(trades),
     total_volume |-> stats.total_volume + total_notional(trades)]

\* the counters after one submit_order: untouched when validation failed
submit_statistics(stats, res) ==
    IF res.dispatched THEN update_statistics(stats, res.trades) ELSE stats

\* what one more submit call returned, added to the record of all calls
count_return(ret, res) ==
    [trades |-> ret.trades + Len(res.trades),
     value |-> ret.value + SeqSum([i \in 1..Len(res.trades) |->
                  res.trades[i].price * res.trades[i].quantity]),
     dispatched |-> ret.dispatched + (IF res.dispatched THEN 1 ELSE 0)]

\* no submit without trades is being followed
NoTrip ==
    [stage |-> "none", symbol |-> "", order_id |-> 0, before |-> EmptyDict]

Init ==
    /\ order_books = EmptyDict
    /\ objs = <<>>
    /\ submitted = 0
    /\ last = Outcome("init", "", 0, 0, <<>>, <<>>, FALSE, FALSE)
    /\ executed = EmptyDict
    /\ trip = NoTrip
    /\ statistics = [total_orders_processed |-> 0,
                     total_trades_executed |-> 0, total_volume |-> 0]
    /\ returned = [trades |-> 0, value |-> 0, dispatched |-> 0]
    /\ trade_callbacks = <<>>
    /\ market_data_callbacks = <<>>
    /\ events = <<>>

Submitted(res, sym, aref, id) ==
    /\ order_books' = res.order_books
    /\ objs' = res.objs
    /\ last' = [Outcome("submit", sym, aref, id, res.trades, res.log,
                        res.dispatched, FALSE) EXCEPT !.loops = res.loops]
    /\ submitted' = submitted + 1
    /\ executed' = record_trades(executed, res.trades)
    /\ trip' = IF res.trades = <<>>
               THEN [stage |-> "submitted", symbol |-> sym, order_id |-> id,
                     before |-> order_books]
               ELSE NoTrip
    /\ statistics' = submit_statistics(statistics, res)
    /\ returned' = count_return(returned, res)
    /\ events' = events \o submit_notify(res, sym, trade_callbacks,
                                         market_data_callbacks, id)
    /\ UNCHANGED <<trade_callbacks, market_data_callbacks>>

\* A caller constructs a fresh Order (uuid order_id, status Pending,
\* nothing filled) and submits it.
Submit(sym, typ, side, qty, price) ==
    /\ submitted < MaxOrders
    /\ Submitted(submit_order(order_books,
                    Append(objs, Order(submitted + 1, sym, typ, side, qty,
                                       price, submitted + 1)),
                    Len(objs) + 1),
                 sym, Len(objs) + 1, submitted + 1)

SubmitOrder ==
    \E sym \in Symbols, typ \in OrderType, side \in OrderSide,
       qty \in Quantities :
        \E price \in (IF typ = MARKET THEN {NoPrice} ELSE Prices) :
            Submit(sym, typ, side, qty, price)

Cancelled(res, sym, id) ==
    /\ order_books' = res.order_books
    /\ objs' = res.objs
    /\ last' = Outcome("cancel", sym, 0, id, <<>>, <<>>, FALSE, res.success)
    /\ trip' = IF trip.stage = "submitted" /\ trip.symbol = sym
                    /\ trip.order_id = id
               THEN [trip EXCEPT !.stage = "cancelled"]
               ELSE NoTrip
    /\ events' = events \o cancel_notify(res, sym, market_data_callbacks,
                                         submitted)
    /\ UNCHANGED <<submitted, executed, statistics, returned,
                   trade_callbacks, market_data_callbacks>>

\* A caller cancels by id: any id handed out so far, or one never issued.
CancelOrder ==
    \E sym \in Symbols, id \in 1..(submitted + 1) :
        Cancelled(cancel_order(order_books, objs, id, sym), sym, id)

AddOrderBook ==
    \E sym \in Symbols :
        /\ order_books' = add_order_book(order_books, sym)
        /\ last' = Outcome("add_order_book", sym, 0, 0, <<>>, <<>>, FALSE, FALSE)
        /\ trip' = NoTrip
        /\ UNCHANGED <<objs, submitted, executed, statistics, returned,
                       trade_callbacks, market_data_callbacks, events>>

Next == SubmitOrder \/ CancelOrder \/ AddOrderBook

Spec == Init /\ [][Next]_vars

\* Callbacks of both kinds are registered while the run has orders left
\* to submit, MaxCallbacks of them at most.
MayRegister ==
    /\ Len(trade_callbacks) + Len(market_data_callbacks) < MaxCallbacks
    /\ submitted < MaxOrders

\* MatchingEngine.add_trade_callback, with a callback that returns or one
\* that raises.
AddTradeCallback ==
    \E raises \in BOOLEAN :
        /\ MayRegister
        /\ trade_callbacks' = Append(trade_callbacks, Callback(raises))
        /\ last' = Outcome("add_trade_callback", "", 0, 0, <<>>, <<>>,
                           FALSE, FALSE)
        /\ trip' = NoTrip
        /\ UNCHANGED <<order_books, objs, submitted, executed, statistics,
                       returned, market_data_callbacks, events>>

\* MatchingEngine.add_market_data_callback
AddMarketDataCallback ==
    \E raises \in BOOLEAN :
        /\ MayRegister
        /\ market_data_callbacks' =
              Append(market_data_callbacks, Callback(raises))
        /\ last' = Outcome("add_market_data_callback", "", 0, 0, <<>>, <<>>,
                           FALSE, FALSE)
        /\ trip' = NoTrip
        /\ UNCHANGED <<order_books, objs, submitted, executed, statistics,
                       returned, trade_callbacks, events>>

\* Orders of every type, side and quantity at one price: what is delivered
\* to callbacks depends on the trades made, not on the price levels.
SubmitAtOnePrice ==
    \E sym \in Symbols, typ \in OrderType, side \in OrderSide,
       qty \in Quantities :
        Submit(sym, typ, side, qty, IF typ = MARKET THEN NoPrice ELSE 1)

\* A cancel of the order submitted last, which sends a book update when
\* that order rests, while the run has orders left to submit.
CancelNewest ==
    \E sym \in Symbols :
        /\ submitted > 0
        /\ submitted < MaxOrders
        /\ last.op = "submit"
        /\ Cancelled(cancel_order(order_books, objs, submitted, sym),
                     sym, submitted)

NextNotify ==
    \/ SubmitAtOnePrice
    \/ CancelNewest
    \/ AddTradeCallback
    \/ AddMarketDataCallback

SpecNotify == Init /\ [][NextNotify]_vars

\* A second trading symbol, as in test_multiple_symbols.
OtherSymbol == "ETH-USDT"

\* Orders for the second symbol: limit orders, which rest in its book or
\* trade against what rests there.
SubmitOtherSymbol ==
    \E side \in OrderSide, price \in Prices :
        Submit(OtherSymbol, LIMIT, side, 1, price)

\* A cancel naming either symbol, with the id of any order submitted so far,
\* whichever symbol that order was submitted for.
CancelEitherSymbol ==
    \E sym \in Symbols \cup {OtherSymbol}, id \in 1..submitted :
        Cancelled(cancel_order(order_books, objs, id, sym), sym, id)

\* MatchingEngine.add_order_book called for the second symbol
AddOtherOrderBook ==
    /\ order_books' = add_order_book(order_books, OtherSymbol)
    /\ last' = Outcome("add_order_book", OtherSymbol, 0, 0, <<>>, <<>>,
                       FALSE, FALSE)
    /\ trip' = NoTrip
    /\ UNCHANGED <<objs, submitted, executed, statistics, returned,
                   trade_callbacks, market_data_callbacks, events>>

NextTwoSymbols == SubmitOrder \/ SubmitOtherSymbol \/ CancelEitherSymbol

SpecTwoSymbols == Init /\ [][NextTwoSymbols]_vars

\* Books added by hand for either symbol, before or between submits.
NextBooks ==
    \/ SubmitOrder
    \/ SubmitOtherSymbol
    \/ AddOrderBook
    \/ AddOtherOrderBook

SpecBooks == Init /\ [][NextBooks]_vars

\* Field values Order._validate refuses at construction; an Order object
\* can still carry them, its fields being assignable afterwards.
NoSymbol == ""
BadQuantities == {0, -1}
BadPrices == {NoPrice, -1}

\* A caller submits an Order one field of which was set to a refused value
\* after construction (the other fields: any type and side, the least
\* quantity and price).
SubmitAlteredOrder ==
    \E sym \in Symbols, typ \in OrderType, side \in OrderSide,
       qty \in {1} :
        \E price \in (IF typ = MARKET THEN {NoPrice} ELSE {1}) :
            \/ Submit(NoSymbol, typ, side, qty, price)
            \/ \E bad \in BadQuantities : Submit(sym, typ, side, bad, price)
            \/ /\ typ # MARKET
               /\ \E bad \in BadPrices : Submit(sym, typ, side, qty, bad)

\* submits of well-formed and of altered orders, in any order
NextAdmission == SubmitOrder \/ SubmitAlteredOrder \/ AddOrderBook

SpecAdmission == Init /\ [][NextAdmission]_vars

\* ------------------------------------------------------------ properties
IsSubmit == last.op = "submit"

\* the caller's Order object of the last submit
LastOrder == objs[last.ref]

Dispatched(typ) ==
    IsSubmit /\ last.dispatched /\ LastOrder.order_type = typ

TradeSum == SeqSum([i \in 1..Len(last.trades) |-> last.trades[i].quantity])

\* the queued references of one side of a book
SideRefs(levels) == UNION {SeqRange(levels[p].orders) : p \in DOMAIN levels}

\* C1: every trade of a submitted Limit, IOC or FOK order with limit price p
\* is made at a price <= p for a Buy and >= p for a Sell.
PriceProtection ==
    (IsSubmit /\ LastOrder.order_type \in {LIMIT, IOC, FOK}) =>
        \A i \in 1..Len(last.trades) :
            IF LastOrder.side = BUY
            THEN last.trades[i].price <= LastOrder.price
            ELSE last.trades[i].price >= LastOrder.price

\* C2: every trade is made at the price of the level it was matched in,
\* which is the resting maker's own price.
MakerPriceUsed ==
    IsSubmit =>
        \A i \in 1..Len(last.trades) :
            /\ last.trades[i].price = last.log[i].maker_price
            /\ last.trades[i].price = last.log[i].level_price

\* a priced aggressor traded at a price that is not its own limit price
MakerPriceWitness ==
    /\ IsSubmit
    /\ LastOrder.order_type # MARKET
    /\ \E i \in 1..Len(last.trades) :
          /\ last.trades[i].price # LastOrder.price
          /\ last.trades[i].price = last.log[i].maker_price

\* C3: when a trade is made with maker M2, no order appended to M2's level
\* before M2 is still queued there with remaining quantity (references are
\* handed out in append order).
TimePriority ==
    IsSubmit =>
        \A i \in 1..Len(last.log) :
            \A k \in 1..Len(last.log[i].queue) :
                last.log[i].queue[k] < last.log[i].maker
                    => last.log[i].queue_rem[k] = 0

\* one aggressor traded with two makers of the same level, the earlier
\* appended one first
TimePriorityWitness ==
    /\ IsSubmit
    /\ \E i, j \in 1..Len(last.log) :
          /\ i < j
          /\ last.log[i].level_price = last.log[j].level_price
          /\ last.log[i].maker < last.log[j].maker
          /\ last.log[j].maker \in SeqRange(last.log[i].queue)

\* C4: every trade of a submit is made in the best level of the opposite
\* side that holds orders at that moment, and the trade prices of one
\* submit never improve (non-decreasing for a Buy, non-increasing for a
\* Sell).
PricePriority ==
    IsSubmit =>
        /\ \A i \in 1..Len(last.log) :
              \A p \in last.log[i].live_prices :
                  IF LastOrder.side = BUY
                  THEN last.trades[i].price <= p
                  ELSE last.trades[i].price >= p
        /\ \A i, j \in 1..Len(last.trades) :
              i < j =>
                  IF LastOrder.side = BUY
                  THEN last.trades[i].price <= last.trades[j].price
                  ELSE last.trades[i].price >= last.trades[j].price

\* one aggressor traded in two levels, while the worse one was already there
PricePriorityWitness ==
    /\ IsSubmit
    /\ \E i, j \in 1..Len(last.trades) :
          /\ i < j
          /\ last.trades[i].price # last.trades[j].price
          /\ last.trades[j].price \in last.log[i].live_prices


BothSides(book) == DOMAIN book.bids # {} /\ DOMAIN book.asks # {}

\* C5: in every book with bids and asks, the best bid is strictly below the
\* best ask.
NoCrossedBook ==
    \A sym \in DOMAIN order_books :
        BothSides(order_books[sym]) =>
            \A b \in DOMAIN order_books[sym].bids :
                \A a \in DOMAIN order_books[sym].asks : b < a

\* some book holds bids and asks at once
TwoSidedBook == \E sym \in DOMAIN order_books : BothSides(order_books[sym])

\* no book ever holds bids and asks at once
NeverTwoSided == ~TwoSidedBook

\* C6: a submitted FOK order ends either with no trade, status Rejected and
\* the books unchanged, or with trades summing to its quantity and status
\* Filled.
FokAllOrNothing ==
    [][(IsSubmit' /\ LastOrder'.order_type = FOK) =>
          \/ /\ last'.trades = <<>>
             /\ LastOrder'.status = REJECTED
             /\ order_books' = order_books
          \/ /\ TradeSum' = LastOrder'.quantity
             /\ LastOrder'.status = FILLED]_vars

\* quantity really resting in books, with the objects os, on the side
\* opposite to order o at prices passing its limit check
CrossableRemaining(books, os, o) ==
    IF o.symbol \notin DOMAIN books THEN 0
    ELSE
      LET levels == IF o.side = BUY THEN books[o.symbol].asks
                    ELSE books[o.symbol].bids
          passing == {p \in DOMAIN levels :
                        IF o.side = BUY THEN p <= o.price ELSE p >= o.price}
          ps == sorted_asc(passing)
      IN SeqSum([i \in 1..Len(ps) |-> level_remaining(levels[ps[i]], os)])

\* C7: a submitted FOK order is rejected, with no trade and the books
\* unchanged, when the crossable resting quantity is less than its
\* quantity, and is matched otherwise.
FokPreCheck ==
    [][(IsSubmit' /\ LastOrder'.order_type = FOK) =>
          IF CrossableRemaining(order_books, objs, LastOrder') < LastOrder'.quantity
          THEN /\ LastOrder'.status = REJECTED
               /\ last'.trades = <<>>
               /\ order_books' = order_books
          ELSE last'.dispatched /\ Len(last'.trades) > 0]_vars

\* one side of the book of a symbol, empty when there is no such book
OwnSide(books, sym, side) ==
    IF sym \notin DOMAIN books THEN EmptyDict
    ELSE IF side = BUY THEN books[sym].bids ELSE books[sym].asks

\* C8: after the submit of an IOC order its id is in no level and not in
\* the id index, and its own side of the book is as before the submit.
IocNeverRests ==
    [][Dispatched(IOC)' =>
          LET book == order_books'[last'.symbol]
              queued == SideRefs(book.bids) \cup SideRefs(book.asks)
          IN /\ \A r \in queued : objs'[r].order_id # last'.order_id
             /\ last'.order_id \notin DOMAIN book.orders
             /\ OwnSide(order_books', last'.symbol, LastOrder'.side)
                  = OwnSide(order_books, last'.symbol, LastOrder'.side)]_vars

\* C9: after the submit of an IOC order its status is Filled when nothing
\* remains, PartiallyFilled when it traded and something remains, and
\* Cancelled when it did not trade.
IocFinalStatus ==
    Dispatched(IOC) =>
        LastOrder.status =
            IF remaining_quantity(LastOrder) = 0 THEN FILLED
            ELSE IF Len(last.trades) > 0 THEN PARTIALLY_FILLED
            ELSE CANCELLED

\* an IOC order traded and was left with a remainder
IocPartialWitness ==
    /\ Dispatched(IOC)
    /\ Len(last.trades) > 0
    /\ remaining_quantity(LastOrder) > 0
    /\ LastOrder.status = PARTIALLY_FILLED

\* C10: after the submit of a Market order the returned trades stand, and
\* its status is Rejected when something remains and Filled when nothing
\* remains.
MarketThinBook ==
    Dispatched(MARKET) =>
        /\ TradeSum = LastOrder.filled_quantity
        /\ LastOrder.status =
              IF remaining_quantity(LastOrder) > 0 THEN REJECTED ELSE FILLED

\* every reference queued in some level of a book
Queued(book) == SideRefs(book.bids) \cup SideRefs(book.asks)

\* the status a Limit order with a remainder should show
LimitRestingStatus ==
    IF Len(last.trades) > 0 THEN PARTIALLY_FILLED ELSE PENDING

\* C11: after the submit of a Limit order with a remainder, the order is at
\* the tail of the level at its price on its own side with that remainder,
\* and the submitter's object and the looked-up object both show
\* PartiallyFilled when the submit traded and Pending otherwise; with no
\* remainder the status is Filled and nothing of the order is queued.
LimitOrderFate ==
    Dispatched(LIMIT) =>
        LET book == order_books[last.symbol]
            levels == OwnSide(order_books, last.symbol, LastOrder.side)
            found == get_order(order_books, last.order_id, last.symbol)
        IN IF remaining_quantity(LastOrder) > 0
           THEN /\ LastOrder.price \in DOMAIN levels
                /\ Len(levels[LastOrder.price].orders) > 0
                /\ LET t == levels[LastOrder.price].orders[
                                Len(levels[LastOrder.price].orders)]
                   IN /\ objs[t].order_id = last.order_id
                      /\ remaining_quantity(objs[t])
                            = remaining_quantity(LastOrder)
                /\ LastOrder.status = LimitRestingStatus
                /\ found # NoOrder
                /\ objs[found].status = LimitRestingStatus
           ELSE /\ LastOrder.status = FILLED
                /\ \A r \in Queued(book) : objs[r].order_id # last.order_id

\* the price levels of both sides of a book
Levels(book) ==
    {book.bids[p] : p \in DOMAIN book.bids} \cup
    {book.asks[p] : p \in DOMAIN book.asks}

\* C12: every price level kept in a book has a total_quantity equal to the
\* sum of the remaining quantities of its queued orders, and greater than 0.
LevelQuantity ==
    \A sym \in DOMAIN order_books :
        \A level \in Levels(order_books[sym]) :
            /\ level.total_quantity = level_remaining(level, objs)
            /\ level.total_quantity > 0

\* C13: every order queued in a price level has 0 < remaining_quantity <=
\* quantity and status Pending or PartiallyFilled.
RestingOrders ==
    \A sym \in DOMAIN order_books :
        \A r \in Queued(order_books[sym]) :
            /\ 0 < remaining_quantity(objs[r])
            /\ remaining_quantity(objs[r]) <= objs[r].quantity
            /\ objs[r].status \in {PENDING, PARTIALLY_FILLED}

\* a submit filled a maker in part and left it queued, behind it or beside
\* it an untouched order
RestingOrdersWitness ==
    /\ IsSubmit
    /\ Len(last.trades) > 0
    /\ \E r1, r2 \in Queued(order_books[last.symbol]) :
          /\ objs[r1].status = PARTIALLY_FILLED
          /\ objs[r1].order_id = last.trades[Len(last.trades)].maker_order_id
          /\ objs[r2].status = PENDING

\* how often a reference is queued in the levels of one side
Occurrences(levels, r) ==
    SeqSum([i \in 1..Len(sorted_asc(DOMAIN levels)) |->
              Len(SelectSeq(levels[sorted_asc(DOMAIN levels)[i]].orders,
                            LAMBDA x : x = r))])

\* C14: every queued order is queued exactly once, in a level of its own
\* side at its own price, no other queued order has its id, and the id
\* index maps its id to it.
BookStructure ==
    \A sym \in DOMAIN order_books :
        LET book == order_books[sym] IN
        /\ \A r \in Queued(book) :
              /\ Occurrences(book.bids, r) + Occurrences(book.asks, r) = 1
              /\ book_get_order(book, objs[r].order_id) = r
              /\ \A r2 \in Queued(book) :
                    objs[r2].order_id = objs[r].order_id => r2 = r
        /\ \A p \in DOMAIN book.bids :
              \A r \in SeqRange(book.bids[p].orders) :
                  objs[r].side = BUY /\ objs[r].price = p
        /\ \A p \in DOMAIN book.asks :
              \A r \in SeqRange(book.asks[p].orders) :
                  objs[r].side = SELL /\ objs[r].price = p

\* a cancel succeeded and left orders queued at two prices
BookStructureWitness ==
    /\ last.op = "cancel"
    /\ last.success
    /\ \E r1, r2 \in Queued(order_books[last.symbol]) :
          objs[r1].price # objs[r2].price

\* an order of the last submit that did not rest
LastDidNotRest ==
    /\ IsSubmit
    /\ \A r \in Queued(order_books[last.symbol]) :
          objs[r].order_id # last.order_id

\* C15: the id index holds queued orders only, and an order that did not
\* rest is not in it: its lookup finds nothing and its cancel returns false.
IndexHoldsRestingOnly ==
    /\ \A sym \in DOMAIN order_books :
          \A id \in DOMAIN order_books[sym].orders :
              order_books[sym].orders[id] \in Queued(order_books[sym])
    /\ (IsSubmit /\ last.symbol \in DOMAIN order_books /\ LastDidNotRest) =>
          /\ get_order(order_books, last.order_id, last.symbol) = NoOrder
          /\ ~cancel_order(order_books, objs, last.order_id, last.symbol).success

\* C16: the trades of a submit sum to at most the order's quantity, to the
\* order's filled_quantity, and to what the submit added to the filled
\* quantities of the orders that existed before it (the makers); and every
\* order always has 0 <= filled_quantity <= quantity with filled_quantity +
\* remaining_quantity = quantity.
Conservation ==
    [][/\ IsSubmit' =>
            /\ TradeSum' <= LastOrder'.quantity
            /\ TradeSum' = LastOrder'.filled_quantity
            /\ TradeSum' = SeqSum([r \in 1..Len(objs) |->
                    objs'[r].filled_quantity - objs[r].filled_quantity])
       /\ \A r \in 1..Len(objs') :
            /\ 0 <= objs'[r].filled_quantity
            /\ objs'[r].filled_quantity <= objs'[r].quantity
            /\ objs'[r].filled_quantity + remaining_quantity(objs'[r])
                  = objs'[r].quantity]_vars

\* a submit traded with two makers, the second one filled in part
ConservationWitness ==
    /\ IsSubmit
    /\ Len(last.trades) = 2
    /\ last.trades[1].maker_order_id # last.trades[2].maker_order_id
    /\ TradeSum = LastOrder.quantity
    /\ \E r \in Queued(order_books[last.symbol]) :
          /\ objs[r].order_id = last.trades[2].maker_order_id
          /\ objs[r].filled_quantity = last.trades[2].quantity

\* the resting order a lookup of an id returns, if any
RestingRecord(sym, id) ==
    IF /\ sym \in DOMAIN order_books
       /\ get_order(order_books, id, sym) \in Queued(order_books[sym])
    THEN get_order(order_books, id, sym) ELSE NoOrder

\* C17: for every order id, the record a lookup returns while the order
\* rests has filled_quantity equal to the summed quantity of all trades
\* naming the id as maker or taker, and average_price * filled_quantity
\* equal to their summed price * quantity.
AveragePriceLaw ==
    \A sym \in DOMAIN order_books :
        \A id \in 1..submitted :
            RestingRecord(sym, id) # NoOrder =>
                LET o == objs[RestingRecord(sym, id)] IN
                /\ o.filled_quantity = executed_of(executed, id).quantity
                /\ o.average_price.num * o.filled_quantity
                      = executed_of(executed, id).value * o.average_price.den

\* the id is in the id index of the symbol's book and its order is queued
Resting(books, sym, id) ==
    /\ sym \in DOMAIN books
    /\ id \in DOMAIN books[sym].orders
    /\ books[sym].orders[id] \in Queued(books[sym])

\* a queue without the reference r, the others in their order
Without(q, r) == SelectSeq(q, LAMBDA x : x # r)

\* the levels of one side before and after the order r at price p was
\* taken out: r gone, its level gone if emptied, every other queue as before
SideAfterCancel(levels, levels2, p, r) ==
    /\ DOMAIN levels2 \subseteq DOMAIN levels
    /\ \A q \in DOMAIN levels \ {p} :
          q \in DOMAIN levels2 /\ levels2[q].orders = levels[q].orders
    /\ IF Without(levels[p].orders, r) = <<>>
       THEN p \notin DOMAIN levels2
       ELSE /\ p \in DOMAIN levels2
            /\ levels2[p].orders = Without(levels[p].orders, r)

\* C18: the cancel of a resting order returns true, takes the order out of
\* its level, deletes the level and its price from the best-price heap if
\* it became empty, marks the order Cancelled, removes it from the id index
\* (lookup finds nothing), and leaves every other resting order, its queue
\* position and its index entry as they were.
CancelResting ==
    [][(last'.op = "cancel"
          /\ Resting(order_books, last'.symbol, last'.order_id)) =>
          LET book == order_books[last'.symbol]
              book2 == order_books'[last'.symbol]
              r == order_books[last'.symbol].orders[last'.order_id]
              o == objs[r]
          IN /\ last'.success
             /\ objs'[r].status = CANCELLED
             /\ get_order(order_books', last'.order_id, last'.symbol) = NoOrder
             /\ r \notin Queued(book2)
             /\ IF o.side = BUY
                THEN /\ SideAfterCancel(book.bids, book2.bids, o.price, r)
                     /\ book2.asks = book.asks
                     /\ o.price \notin DOMAIN book2.bids =>
                           /\ (0 - o.price) \notin SeqRange(book2.bid_prices)
                           /\ get_bbo(book2).best_bid # o.price
                ELSE /\ SideAfterCancel(book.asks, book2.asks, o.price, r)
                     /\ book2.bids = book.bids
                     /\ o.price \notin DOMAIN book2.asks =>
                           /\ o.price \notin SeqRange(book2.ask_prices)
                           /\ get_bbo(book2).best_ask # o.price
             /\ Len(objs') = Len(objs)
             /\ \A r2 \in (1..Len(objs)) \ {r} : objs'[r2] = objs[r2]
             /\ \A id2 \in DOMAIN book.orders \ {last'.order_id} :
                   /\ id2 \in DOMAIN book2.orders
                   /\ book2.orders[id2] = book.orders[id2]]_vars

\* a resting order was cancelled out of a level that still holds another
CancelRestingWitness ==
    /\ last.op = "cancel"
    /\ last.success
    /\ \E r \in 1..Len(objs) :
          /\ objs[r].order_id = last.order_id
          /\ objs[r].status = CANCELLED
          /\ remaining_quantity(objs[r]) > 0
          /\ objs[r].order_type = LIMIT
          /\ objs[r].price \in
                DOMAIN OwnSide(order_books, last.symbol, objs[r].side)

\* C19: a cancel for a symbol without a book, or for an id whose order is
\* not resting, returns false (so nothing is notified), a lookup of it finds
\* nothing, and no book and no order changes.
CancelAbsent ==
    [][(last'.op = "cancel"
          /\ ~Resting(order_books, last'.symbol, last'.order_id)) =>
          /\ ~last'.success
          /\ get_order(order_books, last'.order_id, last'.symbol) = NoOrder
          /\ order_books' = order_books
          /\ objs' = objs]_vars

\* C20: a later submit or cancel never changes the status of an order that
\* is Filled, Cancelled or Rejected, and changes a status only from Pending
\* or PartiallyFilled to PartiallyFilled, Filled or Cancelled.
TerminalStatuses ==
    [][\A r \in 1..Len(objs) :
          /\ objs[r].status \in {FILLED, CANCELLED, REJECTED} =>
                objs'[r].status = objs[r].status
          /\ objs'[r].status # objs[r].status =>
                /\ objs[r].status \in {PENDING, PARTIALLY_FILLED}
                /\ objs'[r].status \in
                      {PARTIALLY_FILLED, FILLED, CANCELLED}]_vars

\* the depths a snapshot is asked for: none, fewer than, as many as and
\* more than the levels a side can have
Depths == 0..(MaxPrice + 1)

\* what can be seen of the book of a symbol: its levels with their queues
\* and totals, the best bid and ask and the depth of both sides
BookView(books, sym) ==
    [bids |-> OwnSide(books, sym, BUY),
     asks |-> OwnSide(books, sym, SELL),
     bbo |-> engine_get_bbo(books, sym),
     depth |-> [side \in {BIDS, ASKS} |-> [n \in Depths |->
                  engine_get_order_book_depth(books, sym, side, n)]]]

HoldingPrices(levels) == {p \in DOMAIN levels : Len(levels[p].orders) > 0}

\* C22: the best bid is the highest price of the bid levels holding orders
\* and the best ask the lowest price of the ask levels holding orders, each
\* is none exactly when its side has no level, and the heaps hold no price
\* of a deleted level.
BestPrice ==
    \A sym \in DOMAIN order_books :
        LET book == order_books[sym] IN
        /\ get_bbo(book).best_bid = NoPrice <=> DOMAIN book.bids = {}
        /\ get_bbo(book).best_ask = NoPrice <=> DOMAIN book.asks = {}
        /\ DOMAIN book.bids # {} =>
              /\ get_bbo(book).best_bid \in HoldingPrices(book.bids)
              /\ \A p \in HoldingPrices(book.bids) :
                    p <= get_bbo(book).best_bid
        /\ DOMAIN book.asks # {} =>
              /\ get_bbo(book).best_ask \in HoldingPrices(book.asks)
              /\ \A p \in HoldingPrices(book.asks) :
                    p >= get_bbo(book).best_ask
        /\ \A x \in SeqRange(book.bid_prices) : (0 - x) \in DOMAIN book.bids
        /\ \A x \in SeqRange(book.ask_prices) : x \in DOMAIN book.asks

\* the best level of a side was cancelled away and the best price is now
\* that of a worse level, which was pushed before or after it
BestPriceWitness ==
    /\ last.op = "cancel"
    /\ last.success
    /\ \E r \in 1..Len(objs) :
          /\ objs[r].order_id = last.order_id
          /\ objs[r].status = CANCELLED
          /\ remaining_quantity(objs[r]) > 0
          /\ objs[r].price \notin
                DOMAIN OwnSide(order_books, last.symbol, objs[r].side)
          /\ IF objs[r].side = BUY
             THEN /\ get_bbo(order_books[last.symbol]).best_bid # NoPrice
                  /\ get_bbo(order_books[last.symbol]).best_bid < objs[r].price
             ELSE /\ get_bbo(order_books[last.symbol]).best_ask # NoPrice
                  /\ get_bbo(order_books[last.symbol]).best_ask > objs[r].price

\* C23: the depth of a side asked for n levels has min(n, levels of the
\* side) entries, the n best prices of the side, strictly descending for
\* bids and strictly ascending for asks, each with the aggregate quantity
\* resting in its level.
DepthSnapshot ==
    \A sym \in DOMAIN order_books : \A side \in {BIDS, ASKS} : \A n \in Depths :
        LET d == engine_get_order_book_depth(order_books, sym, side, n)
            levels == IF side = BIDS THEN order_books[sym].bids
                      ELSE order_books[sym].asks
        IN /\ Len(d) = Min(n, Cardinality(DOMAIN levels))
           /\ \A i \in 1..Len(d) :
                 /\ d[i][1] \in DOMAIN levels
                 /\ d[i][2] = level_remaining(levels[d[i][1]], objs)
                 /\ \A p \in DOMAIN levels \ {d[j][1] : j \in 1..Len(d)} :
                       IF side = BIDS THEN p < d[i][1] ELSE p > d[i][1]
           /\ \A i, j \in 1..Len(d) :
                 i < j => IF side = BIDS THEN d[i][1] > d[j][1]
                          ELSE d[i][1] < d[j][1]

\* C29: total_trades_executed is the number of trades all submit calls
\* returned, total_volume the sum of their price * quantity,
\* total_orders_processed the number of submit calls dispatched to a book,
\* and a cancel changes no counter.
EngineCounters ==
    [][/\ statistics'.total_trades_executed = returned'.trades
       /\ statistics'.total_volume = returned'.value
       /\ statistics'.total_orders_processed = returned'.dispatched
       /\ last'.op = "cancel" => statistics' = statistics]_vars

\* trades at a price other than 1 were counted, one submit was turned away
\* before dispatch, and a cancel came last
EngineCountersWitness ==
    /\ last.op = "cancel"
    /\ last.success
    /\ statistics.total_trades_executed > 0
    /\ statistics.total_volume > statistics.total_trades_executed
    /\ statistics.total_orders_processed < submitted

\* C30: a submit for a symbol without a book leaves a book for that symbol,
\* whatever the order type, and a cancel adds no book.
LazyBookCreation ==
    [][/\ (IsSubmit' /\ last'.symbol \notin DOMAIN order_books) =>
             last'.symbol \in DOMAIN order_books'
       /\ last'.op = "cancel" =>
             DOMAIN order_books' = DOMAIN order_books]_vars

\* the order of the last submit has a field validation refuses
LastRefused ==
    /\ IsSubmit
    /\ \/ LastOrder.symbol = NoSymbol
       \/ LastOrder.quantity <= 0
       \/ /\ LastOrder.order_type \in {LIMIT, IOC, FOK}
          /\ (LastOrder.price = NoPrice \/ LastOrder.price <= 0)

\* C28: a submit of an order with empty symbol, non-positive quantity or,
\* for Limit, IOC and FOK, missing or non-positive price is not dispatched,
\* returns no trade, leaves every book unchanged and leaves the order
\* Rejected.
Admission ==
    [][LastRefused' =>
          /\ ~last'.dispatched
          /\ last'.trades = <<>>
          /\ order_books' = order_books
          /\ LastOrder'.status = REJECTED]_vars

\* every reference a book holds, queued or indexed
BookRefs(book) ==
    Queued(book) \cup {book.orders[id] : id \in DOMAIN book.orders}

\* C24: a submit or cancel for one symbol leaves the book of every other
\* symbol and the orders it holds unchanged and creates no other book, and
\* every trade of a submit carries the submit's symbol and has a maker that
\* was queued in that symbol's book.
CrossSymbolIsolation ==
    [][last'.op \in {"submit", "cancel"} =>
          /\ DOMAIN order_books' \ {last'.symbol}
                = DOMAIN order_books \ {last'.symbol}
          /\ \A y \in DOMAIN order_books \ {last'.symbol} :
                /\ order_books'[y] = order_books[y]
                /\ get_bbo(order_books'[y]) = get_bbo(order_books[y])
                /\ \A r \in BookRefs(order_books[y]) : objs'[r] = objs[r]
          /\ \A i \in 1..Len(last'.trades) :
                /\ last'.trades[i].symbol = last'.symbol
                /\ last'.symbol \in DOMAIN order_books
                /\ last'.log[i].maker \in Queued(order_books[last'.symbol])]_vars

\* a submit traded in one book while the other book held an order that the
\* submitted order would have crossed as well
CrossSymbolWitness ==
    /\ IsSubmit
    /\ Len(last.trades) > 0
    /\ \E y \in DOMAIN order_books \ {last.symbol} :
          \E r \in Queued(order_books[y]) :
              /\ objs[r].side # LastOrder.side
              /\ objs[r].price = last.trades[1].price
              /\ objs[r].filled_quantity = 0

\* the calls of callbacks the step added to the record
Delivered == SubSeq(events', Len(events) + 1, Len(events'))

\* the record of calls only grows
AppendOnly ==
    /\ Len(events') >= Len(events)
    /\ SubSeq(events', 1, Len(events)) = events

\* the places in a record of the calls of one callback of one kind
CallsOf(calls, kind, i) ==
    {n \in 1..Len(calls) : calls[n].kind = kind /\ calls[n].callback = i}

\* the trades one trade callback was given by a record of calls, in order
TradesGiven(calls, i) ==
    [n \in 1..Len(SelectSeq(calls,
                    LAMBDA e : e.kind = "trade" /\ e.callback = i)) |->
        SelectSeq(calls,
            LAMBDA e : e.kind = "trade" /\ e.callback = i)[n].trade]

\* C25: every submit hands each trade subscriber registered at that time
\* exactly the trade list the submit returns, in the order of the list, and
\* nothing else ever hands a trade to a subscriber; the calls are recorded
\* in the order they are made, so what a subscriber has received is the
\* concatenation of the returned lists in submission order.
TradeDelivery ==
    [][/\ AppendOnly
       /\ \A n \in 1..Len(Delivered) :
             Delivered[n].kind = "trade" =>
                 /\ last'.op = "submit"
                 /\ Delivered[n].callback \in 1..Len(trade_callbacks)
       /\ last'.op = "submit" =>
             \A i \in 1..Len(trade_callbacks) :
                 TradesGiven(Delivered, i) = last'.trades]_vars

\* a subscriber registered from the start has received the trades of two
\* submits, the earlier submit's first, and a subscriber registered between
\* the two has received the later trade only
TradeDeliveryWitness ==
    /\ IsSubmit
    /\ Len(last.trades) = 1
    /\ Len(trade_callbacks) = 2
    /\ Len(TradesGiven(events, 1)) = 2
    /\ TradesGiven(events, 1)[1].taker_order_id < last.order_id
    /\ TradesGiven(events, 1)[2] = last.trades[1]
    /\ TradesGiven(events, 2) = last.trades

\* C26: a dispatched submit hands each book-update subscriber exactly one
\* event, for the order's symbol and showing the book the submit left,
\* after every trade of that submit; in the record of all calls no trade
\* follows a book update of its own or a later submit.
BookUpdateOrdering ==
    [][(last'.op = "submit" /\ last'.dispatched) =>
          /\ AppendOnly
          /\ \A j \in 1..Len(market_data_callbacks) :
                Cardinality(CallsOf(Delivered, "market_data", j)) = 1
          /\ \A n \in 1..Len(Delivered) :
                Delivered[n].kind = "market_data" =>
                    /\ Delivered[n].callback \in 1..Len(market_data_callbacks)
                    /\ Delivered[n].call = last'.order_id
                    /\ Delivered[n].market_data =
                          market_data(order_books'[last'.symbol], last'.symbol)
                    /\ \A m \in 1..Len(Delivered) :
                          Delivered[m].kind = "trade" => m < n
          /\ \A p, q \in 1..Len(events') :
                (/\ p < q
                 /\ events'[p].kind = "market_data"
                 /\ events'[q].kind = "trade")
                    => events'[p].call < events'[q].call]_vars

\* a trade of one submit, then that submit's book update, then a trade of
\* a later submit were delivered in this order
BookUpdateWitness ==
    /\ IsSubmit
    /\ \E p, q, r \in 1..Len(events) :
          /\ p < q /\ q < r
          /\ events[p].kind = "trade"
          /\ events[q].kind = "market_data"
          /\ events[q].call = events[p].call
          /\ events[r].kind = "trade"
          /\ events[r].call = last.order_id
          /\ events[q].call < events[r].call

\* the Order object the caller handed to the last submit, as constructed
SubmittedOrder ==
    Order(objs'[last'.ref].order_id, objs'[last'.ref].symbol,
          objs'[last'.ref].order_type, objs'[last'.ref].side,
          objs'[last'.ref].quantity, objs'[last'.ref].price,
          objs'[last'.ref].timestamp)

\* a registered callback of either kind raises
SomeCallbackRaises ==
    \/ \E i \in 1..Len(trade_callbacks) : trade_callbacks[i].raises
    \/ \E j \in 1..Len(market_data_callbacks) :
          market_data_callbacks[j].raises

\* what the submit does on an engine without callbacks
SameAsUnobserved(res) ==
    /\ order_books' = res.order_books
    /\ objs' = res.objs
    /\ last'.trades = res.trades
    /\ statistics' = submit_statistics(statistics, res)

MakerSide == IF LastOrder.side = BUY THEN order_books[last.symbol].asks
             ELSE order_books[last.symbol].bids

\* C31: after a submit, every maker it traded with either has no remaining
\* quantity, status Filled, and is neither queued nor in the id index, or
\* has remaining quantity, status PartiallyFilled, is at the head of its
\* level and is what the id index holds for its id.
MakerConsumption ==
    IsSubmit =>
        \A i \in 1..Len(last.log) :
            LET r == last.log[i].maker
                book == order_books[last.symbol]
            IN IF remaining_quantity(objs[r]) = 0
               THEN /\ objs[r].status = FILLED
                    /\ r \notin Queued(book)
                    /\ objs[r].order_id \notin DOMAIN book.orders
               ELSE /\ remaining_quantity(objs[r]) > 0
                    /\ objs[r].status = PARTIALLY_FILLED
                    /\ last.log[i].level_price \in DOMAIN MakerSide
                    /\ Len(MakerSide[last.log[i].level_price].orders) > 0
                    /\ Head(MakerSide[last.log[i].level_price].orders) = r
                    /\ book_get_order(book, objs[r].order_id) = r

\* one submit consumed a maker and filled the next one in part
MakerConsumptionWitness ==
    /\ IsSubmit
    /\ Len(last.log) = 2
    /\ objs[last.log[1].maker].status = FILLED
    /\ objs[last.log[2].maker].status = PARTIALLY_FILLED
    /\ last.log[2].maker \in Queued(order_books[last.symbol])

\* the queue of the level at price p of one side, empty without a level
QueueAt(levels, p) == IF p \in DOMAIN levels THEN levels[p].orders ELSE <<>>

\* the orders of an old queue that a new queue still holds, in the old order
Kept(old, new) == SelectSeq(old, LAMBDA r : r \in SeqRange(new))

\* new is old with orders removed and orders not queued before added at
\* the tail
RemovedAndAppended(old, new) ==
    \E k \in 0..Len(new) :
        /\ SubSeq(new, 1, k) = Kept(old, new)
        /\ \A j \in (k + 1)..Len(new) : new[j] \notin SeqRange(old)

\* the orders a step took out of a queue were consumed from the head on by
\* a submit, or one order was cancelled; other calls leave the queue alone
RemovalsExplained(old, new) ==
    \/ /\ last'.op = "submit"
       /\ \E k \in 0..Len(old) :
             /\ Kept(old, new) = SubSeq(old, k + 1, Len(old))
             /\ \A j \in 1..k : remaining_quantity(objs'[old[j]]) = 0
    \/ /\ last'.op = "cancel"
       /\ Len(Kept(old, new)) >= Len(old) - 1
       /\ \A r \in SeqRange(old) \ SeqRange(new) :
             objs'[r].status = CANCELLED
    \/ /\ last'.op \notin {"submit", "cancel"}
       /\ new = old

\* the queues of one side of one book before and after a step
SideStable(old_levels, new_levels) ==
    \A p \in DOMAIN old_levels :
        /\ RemovedAndAppended(old_levels[p].orders, QueueAt(new_levels, p))
        /\ RemovalsExplained(old_levels[p].orders, QueueAt(new_levels, p))

\* C32: every step changes the queue of a level only by removing orders
\* (consumed from the head on by a submit, or one cancelled order) and by
\* adding new orders at the tail; every maker was at the head of its level
\* when it was matched, a maker left with remaining quantity is still at the
\* head afterwards, and a submit goes on to another maker only after the
\* maker before has no remaining quantity.
HeadStability ==
    [][/\ \A sym \in DOMAIN order_books :
             /\ sym \in DOMAIN order_books'
             /\ SideStable(order_books[sym].bids, order_books'[sym].bids)
             /\ SideStable(order_books[sym].asks, order_books'[sym].asks)
       /\ last'.op = "submit" =>
             \A i \in 1..Len(last'.log) :
                 /\ Head(last'.log[i].queue) = last'.log[i].maker
                 /\ i < Len(last'.log) =>
                       remaining_quantity(objs'[last'.log[i].maker]) = 0
                 /\ remaining_quantity(objs'[last'.log[i].maker]) > 0 =>
                       Head(QueueAt(MakerSide', last'.log[i].level_price))
                         = last'.log[i].maker]_vars

\* a submit filled in part the head of a level that holds a second order
HeadStabilityWitness ==
    /\ IsSubmit
    /\ Len(last.log) > 0
    /\ remaining_quantity(objs[last.log[Len(last.log)].maker]) > 0
    /\ Len(QueueAt(MakerSide, last.log[Len(last.log)].level_price)) >= 2
    /\ Head(QueueAt(MakerSide, last.log[Len(last.log)].level_price))
          = last.log[Len(last.log)].maker

\* what the aggressor of the last submit had left before its i-th trade
AggressorRemaining(i) ==
    LastOrder.quantity
      - SeqSum([j \in 1..(i - 1) |-> last.trades[j].quantity])

\* C33: the i-th trade of a submit of order A has the smaller of A's and
\* the maker's remaining quantity just before it, more than 0, A's side as
\* aggressor side, A's id as taker, A's symbol, and as maker the id of the
\* order then at the head of the best opposite level that holds orders.
TradeRecord ==
    IsSubmit =>
        /\ Len(last.log) = Len(last.trades)
        /\ \A i \in 1..Len(last.trades) :
              /\ last.trades[i].quantity =
                    Min(AggressorRemaining(i), last.log[i].queue_rem[1])
              /\ last.trades[i].quantity > 0
              /\ last.trades[i].aggressor_side = LastOrder.side
              /\ last.trades[i].taker_order_id = LastOrder.order_id
              /\ last.trades[i].symbol = LastOrder.symbol
              /\ last.trades[i].maker_order_id =
                    objs[Head(last.log[i].queue)].order_id
              /\ last.log[i].level_price \in last.log[i].live_prices
              /\ \A p \in last.log[i].live_prices :
                    IF LastOrder.side = BUY THEN last.log[i].level_price <= p
                    ELSE last.log[i].level_price >= p

\* a submit made two trades, the first limited by the maker's remaining
\* quantity and the second by the aggressor's
TradeRecordWitness ==
    /\ IsSubmit
    /\ Len(last.trades) = 2
    /\ last.trades[1].quantity < AggressorRemaining(1)
    /\ last.trades[2].quantity < last.log[2].queue_rem[1]
    /\ last.trades[2].quantity = AggressorRemaining(2)

\* C34: no book keeps a price level whose queue is empty, on either side.
NoEmptyLevels ==
    \A sym \in DOMAIN order_books :
        /\ \A p \in DOMAIN order_books[sym].bids :
              ~PriceLevel_is_empty(order_books[sym].bids[p])
        /\ \A p \in DOMAIN order_books[sym].asks :
              ~PriceLevel_is_empty(order_books[sym].asks[p])

\* a submit consumed a whole level, which is gone, and traded in a second
\* level, which still holds orders
NoEmptyLevelsWitness ==
    /\ IsSubmit
    /\ Len(last.log) >= 2
    /\ last.log[1].level_price \notin DOMAIN MakerSide
    /\ last.log[Len(last.log)].level_price \in DOMAIN MakerSide

\* the book of a symbol as a submit finds it: an empty one when absent
BookBefore(sym) ==
    IF sym \in DOMAIN order_books THEN order_books[sym] ELSE OrderBook(sym)

\* the levels and the price heap an order of the given side matches against
OppositeLevels(book, side) == IF side = BUY THEN book.asks ELSE book.bids
OppositeHeap(book, side) ==
    IF side = BUY THEN book.ask_prices ELSE book.bid_prices

\* the prices of levels an order may trade at by its own limit
Crossable(levels, o) ==
    {p \in DOMAIN levels : o.order_type = MARKET \/ passes_limit(o, p)}

\* C35: a submit that enters the matching loop leaves it after at most as
\* many inner passes (one trade each) as orders rested on the opposite side
\* and at most as many outer passes (one heappop each) as the opposite price
\* heap had entries, with no maker traded twice, and then either nothing of
\* the order remains or no opposite level it may trade at is left.
Termination ==
    [][(last'.op = "submit" /\ last'.loops.entered) =>
          /\ \A i, j \in 1..Len(last'.log) :
                last'.log[i].maker = last'.log[j].maker => i = j
          /\ Len(last'.trades) <=
                Cardinality(SideRefs(OppositeLevels(BookBefore(last'.symbol),
                                                    LastOrder'.side)))
          /\ last'.loops.pops <=
                Len(OppositeHeap(BookBefore(last'.symbol), LastOrder'.side))
          /\ \/ LastOrder'.quantity - TradeSum' = 0
             \/ Crossable(OppositeLevels(order_books'[last'.symbol],
                                         LastOrder'.side),
                          LastOrder') = {}]_vars

\* a submit went twice through the outer loop and made a trade in each of
\* two levels
TerminationWitness ==
    /\ IsSubmit
    /\ last.loops.entered
    /\ last.loops.pops = 2
    /\ Len(last.trades) = 2
    /\ last.log[1].level_price # last.log[2].level_price

\* the order of the last submit, or its remainder, is queued in the book
LastRested ==
    \E r \in Queued(order_books[last.symbol]) :
        objs[r].order_id = last.order_id

TotalNeverUnderReports ==
    \A sym \in DOMAIN order_books :
        \A level \in Levels(order_books[sym]) :
            /\ level.total_quantity >= level_remaining(level, objs)
            /\ level.total_quantity >= 0

\* after a successful cancel a level with a partly filled order is left,
\* whose total is above what remains in it
TotalOverReportsWitness ==
    /\ last.op = "cancel"
    /\ last.success
    /\ \E level \in Levels(order_books[last.symbol]) :
          /\ level_remaining(level, objs) > 0
          /\ level.total_quantity > level_remaining(level, objs)

\* C38: a cancel that succeeds calls every book-update callback exactly
\* once, with the symbol and the book as the cancel left it, and calls no
\* trade callback; a cancel that fails calls no callback.
CancelNotification ==
    [][last'.op = "cancel" =>
          /\ AppendOnly
          /\ IF last'.success
             THEN /\ \A j \in 1..Len(market_data_callbacks) :
                        Cardinality(CallsOf(Delivered, "market_data", j)) = 1
                  /\ \A n \in 1..Len(Delivered) :
                        /\ Delivered[n].kind = "market_data"
                        /\ Delivered[n].callback
                              \in 1..Len(market_data_callbacks)
                        /\ Delivered[n].market_data.symbol = last'.symbol
                        /\ Delivered[n].market_data =
                              market_data(order_books'[last'.symbol],
                                          last'.symbol)
             ELSE Delivered = <<>>]_vars

\* a cancel took the only resting order off the book and both book-update
\* callbacks were handed the emptied book
CancelNotificationWitness ==
    /\ last.op = "cancel"
    /\ last.success
    /\ Len(market_data_callbacks) = 2
    /\ Len(events) >= 4
    /\ \A k \in 0..1 :
          /\ events[Len(events) - k].op = "cancel"
          /\ events[Len(events) - k].callback = 2 - k
          /\ events[Len(events) - k].market_data.bids = <<>>
          /\ events[Len(events) - k].market_data.asks = <<>>
    /\ events[Len(events) - 2].op = "submit"
    /\ events[Len(events) - 2].market_data.bids
          \o events[Len(events) - 2].market_data.asks # <<>>

\* C39: add_order_book for a symbol that has a book leaves every book and
\* every order as it is; for a new symbol it adds one book, with no level,
\* no heap entry and an empty id index, and leaves the other books alone.
AddOrderBookIdempotent ==
    [][last'.op = "add_order_book" =>
          /\ objs' = objs
          /\ IF last'.symbol \in DOMAIN order_books
             THEN order_books' = order_books
             ELSE /\ DOMAIN order_books'
                       = DOMAIN order_books \cup {last'.symbol}
                  /\ order_books'[last'.symbol].symbol = last'.symbol
                  /\ order_books'[last'.symbol].bids = EmptyDict
                  /\ order_books'[last'.symbol].asks = EmptyDict
                  /\ order_books'[last'.symbol].bid_prices = <<>>
                  /\ order_books'[last'.symbol].ask_prices = <<>>
                  /\ order_books'[last'.symbol].orders = EmptyDict
                  /\ \A y \in DOMAIN order_books :
                        order_books'[y] = order_books[y]]_vars

\* add_order_book was called for a symbol whose book holds orders, next to
\* the book of the other symbol
AddOrderBookWitness ==
    /\ last.op = "add_order_book"
    /\ Cardinality(DOMAIN order_books) = 2
    /\ Queued(order_books[last.symbol]) # {}

\* the entries of a bid heap as prices (the heap stores them negated)
BidHeapPrices(book) ==
    {0 - book.bid_prices[i] : i \in 1..Len(book.bid_prices)}

\* C40: in every book the ask heap holds each price of the ask level map
\* exactly once and nothing else, and the bid heap holds the negation of
\* each price of the bid level map exactly once and nothing else.
HeapConsistency ==
    \A sym \in DOMAIN order_books :
        LET book == order_books[sym] IN
        /\ SeqRange(book.ask_prices) = DOMAIN book.asks
        /\ Len(book.ask_prices) = Cardinality(DOMAIN book.asks)
        /\ BidHeapPrices(book) = DOMAIN book.bids
        /\ Len(book.bid_prices) = Cardinality(DOMAIN book.bids)

\* a submit filled in part the head of the best level, whose price went
\* back on the heap next to the price of a second level
HeapConsistencyWitness ==
    /\ IsSubmit
    /\ Len(last.log) = 1
    /\ remaining_quantity(objs[last.log[1].maker]) > 0
    /\ Len(OppositeHeap(order_books[last.symbol], LastOrder.side)) = 2

====
